---- MODULE Spec2Model ----
(***************************************************************************)
(* State-machine model of src/implied_volatility.cpp: the Monte Carlo      *)
(* pricer BSMmodel and the bisection calculateImpliedVolatility.           *)
(*                                                                         *)
(* Numbers.  ld is long double.  Volatilities are kept as integer counts   *)
(* of grid steps of 0.00375 (0.03 = 8 steps, 6 = 1600 steps): the grid is *)
(* the set of representable ld volatilities, so (low_vol + high_vol) / 2   *)
(* is rounded to the grid, ties to the even neighbour, as IEEE arithmetic  *)
(* rounds.  The first three halvings of the initial width, 199 * 8 steps,  *)
(* are exact, as the first halvings are in ld; below that the rounding     *)
(* shows.  tol is an ld of much smaller magnitude and is therefore         *)
(* measured in a finer unit: one grid step is Ulp units of tol.  Prices,   *)
(* payoffs and premiums are integers; drawn prices are multiples of        *)
(* simulations_num so that every cross-path average is exact.              *)
(* A draw of the normal distribution can be any real number, whatever      *)
(* Sigma is, so a simulated price is a nondeterministic positive value.    *)
(***************************************************************************)
EXTENDS Integers, FiniteSets, Sequences

VARIABLES
  Time, Spot, Strike, r, type, Premium, tol,   \* arguments of calculateImpliedVolatility
  low_vol, high_vol, mid_vol,                  \* the bracket and the trial point
  pc,                                          \* position in calculateImpliedVolatility
  result,                                      \* the returned volatility (0: none yet)
  models,                                      \* the BSMmodel objects alive
  time, spots, call_profits, put_profits,      \* locals of calculatePremiums
  best_call_profit, best_put_profit,
  call_averages, put_averages,                 \* history: per-step averages of the run
  iterations, simulations, constructions       \* history: counters

vars == <<Time, Spot, Strike, r, type, Premium, tol, low_vol, high_vol, mid_vol,
          pc, result, models, time, spots, call_profits, put_profits,
          best_call_profit, best_put_profit, call_averages, put_averages,
          iterations, simulations, constructions>>

inputs == <<Time, Spot, Strike, r, type, Premium, tol>>

locals == <<time, spots, call_profits, put_profits, best_call_profit, best_put_profit>>

(***************************************************************************)
(* Bounds of the model.                                                    *)
(***************************************************************************)
\* number of simulated paths (10000 in the source)
simulations_num == 2

\* number of time steps (100 in the source)
time_nums == 2

\* one grid step of the volatilities, in units of tol
Ulp == 2

\* the model stops following a run after this many loop iterations
MaxIterations == 14

(***************************************************************************)
(* Program constants, in grid steps of 0.00375.                            *)
(***************************************************************************)
\* ld low_vol = 0.03
LowVol0 == 8

\* high_vol = 6
HighVol0 == 1600

\* the initial width high_vol - low_vol = 5.97, in units of tol
Width0 == (HighVol0 - LowVol0) * Ulp

(***************************************************************************)
(* Input domains.                                                          *)
(***************************************************************************)
Paths == 1..simulations_num

\* prices a path can be drawn at
SpotValues == {simulations_num, simulations_num * 2}

\* strikes at the lower and at the upper price: a drawn price is below, at
\* or above the strike
StrikeValues == {simulations_num, simulations_num * 2}

\* 'c', 'p' and a tag that is neither
TypeValues == {"c", "p", "x"}

\* below every premium a pricer can store, equal to one, above every one
PremiumValues == {-1, 1, simulations_num + 1}

\* below one grid step and two grid steps; an eighth, a quarter and a half of
\* the initial width and values next to them; tolerances the initial bracket
\* already meets
TolValues == {1, 2 * Ulp, Width0 \div 8, Width0 \div 8 + 1, Width0 \div 4, Width0 \div 2,
              Width0 - 1, Width0, Width0 + 1}

(***************************************************************************)
(* Pure helpers.                                                           *)
(***************************************************************************)
\* std::max(a, b): (a < b) ? b : a
Max(a, b) == IF a < b THEN b ELSE a

SetMax(S) == CHOOSE x \in S : \A y \in S : y <= x

\* assert(type == 'c' || type == 'p')
AssertType(t) == t = "c" \/ t = "p"

\* profit with the two payoffs exchanged
profit_swapped(x, t, K) == IF t = "c" THEN Max(K - x, 0) ELSE Max(0, x - K)

\* BSMmodel::profit, after its assertion
profit(x, t, K) == IF t = "c" THEN Max(0, x - K) ELSE Max(K - x, 0)

RECURSIVE accumulate(_, _)
\* std::accumulate over the first n elements of v
accumulate(v, n) == IF n = 0 THEN 0 ELSE accumulate(v, n - 1) + v[n]

average(v) == accumulate(v, simulations_num) \div simulations_num

\* the best value taken from the current step alone
new_best_last(best, avg) == avg

\* best = std::max(best, average)
new_best(best, avg) == Max(best, avg)

\* BSMmodel::get_price, after its assertion
get_price(m, t) == IF t = "c" THEN m.call ELSE m.put

\* the midpoint without the division
mid_of_sum(low, high) == low + high

\* (low_vol + high_vol) / 2 in ld: exact when representable, else the
\* neighbour with the even significand
mid_of(low, high) ==
  LET s == low + high
      q == s \div 2
  IN IF s % 2 = 0 THEN q
     ELSE IF q % 2 = 0 THEN q ELSE q + 1

\* the loop condition with >= for >
loop_condition_ge(low, high, t) == (high - low) * Ulp >= t

\* high_vol - low_vol > tol
loop_condition(low, high, t) == (high - low) * Ulp > t

\* the BSMmodel of the current iteration
model == CHOOSE m \in models : TRUE

(***************************************************************************)
(* Initial state: calculateImpliedVolatility entered, bracket initialised. *)
(***************************************************************************)
Init ==
  /\ Time \in {1}
  /\ Spot \in {simulations_num * 2}
  /\ Strike \in StrikeValues
  /\ r \in {0}
  /\ type \in TypeValues
  /\ Premium \in PremiumValues
  /\ tol \in TolValues
  /\ low_vol = LowVol0
  /\ high_vol = HighVol0
  /\ mid_vol = 0
  /\ pc = "while"
  /\ result = 0
  /\ models = {}
  /\ time = 0
  /\ spots = <<>>
  /\ call_profits = <<>>
  /\ put_profits = <<>>
  /\ best_call_profit = 0
  /\ best_put_profit = 0
  /\ call_averages = {}
  /\ put_averages = {}
  /\ iterations = 0
  /\ simulations = 0
  /\ constructions = 0

(***************************************************************************)
(* BSMmodel: construction and simulation.                                  *)
(***************************************************************************)
\* calculatePremiums up to its loop: the locals are initialised
enter_calculatePremiums ==
  /\ time' = 1
  /\ spots' = [i \in Paths |-> Spot]
  /\ call_profits' = [i \in Paths |-> 0]
  /\ put_profits' = [i \in Paths |-> 0]
  /\ best_call_profit' = 0
  /\ best_put_profit' = 0

\* the locals of calculatePremiums go out of scope
leave_calculatePremiums ==
  /\ time' = 0
  /\ spots' = <<>>
  /\ call_profits' = <<>>
  /\ put_profits' = <<>>
  /\ best_call_profit' = 0
  /\ best_put_profit' = 0

\* the loop body ending without the destruction of its BSMmodel
destroy_model_leak == models' = models

\* the BSMmodel of the iteration is destroyed at the end of the loop body
destroy_model == models' = {}

\* call = best_call_profit; put = best_put_profit; the constructor returns
store_premiums(bc, bp) ==
  models' = models \cup {[Sigma |-> mid_vol, call |-> bc, put |-> bp]}

(***************************************************************************)
(* One time step of calculatePremiums: every path is advanced to a drawn   *)
(* price, both payoffs are taken, the averages update the best values.     *)
(* After the last step the premiums are stored and the constructor ends.   *)
(***************************************************************************)
calculatePremiumsStep ==
  /\ pc = "ctor"
  /\ time <= time_nums
  /\ AssertType("c") /\ AssertType("p")
  /\ \E draw \in [Paths -> SpotValues] :
       LET cp == [i \in Paths |-> profit(draw[i], "c", Strike)]
           pp == [i \in Paths |-> profit(draw[i], "p", Strike)]
           call_average == average(cp)
           put_average == average(pp)
           bc == new_best(best_call_profit, call_average)
           bp == new_best(best_put_profit, put_average)
       IN /\ call_averages' = call_averages \cup {call_average}
          /\ put_averages' = put_averages \cup {put_average}
          /\ IF time < time_nums
             THEN /\ time' = time + 1
                  /\ spots' = draw
                  /\ call_profits' = cp
                  /\ put_profits' = pp
                  /\ best_call_profit' = bc
                  /\ best_put_profit' = bp
                  /\ UNCHANGED <<pc, models, constructions>>
             ELSE /\ store_premiums(bc, bp)
                  /\ leave_calculatePremiums
                  /\ constructions' = constructions + 1
                  /\ pc' = "cmp_gt"
  /\ UNCHANGED <<inputs, low_vol, high_vol, mid_vol, result, iterations, simulations>>

(***************************************************************************)
(* calculateImpliedVolatility.                                             *)
(***************************************************************************)
\* while (high_vol - low_vol > tol): the body is entered, mid_vol is set
\* and the constructor of model starts its simulation
LoopEnter ==
  /\ pc = "while"
  /\ loop_condition(low_vol, high_vol, tol)
  /\ iterations < MaxIterations
  /\ mid_vol' = mid_of(low_vol, high_vol)
  /\ enter_calculatePremiums
  /\ call_averages' = {}
  /\ put_averages' = {}
  /\ iterations' = iterations + 1
  /\ simulations' = simulations + 1
  /\ pc' = "ctor"
  /\ UNCHANGED <<inputs, low_vol, high_vol, result, models, constructions>>

\* the first branch assigning the wrong bound
take_high_swapped == low_vol' = mid_vol /\ high_vol' = high_vol

\* high_vol = mid_vol
take_high == high_vol' = mid_vol /\ low_vol' = low_vol

\* the second branch assigning both bounds
take_low_both == low_vol' = mid_vol /\ high_vol' = mid_vol

\* low_vol = mid_vol
take_low == low_vol' = mid_vol /\ high_vol' = high_vol

\* if (model.get_price(type) > Premium)
CompareAbove ==
  /\ pc = "cmp_gt"
  /\ call_averages' = {}
  /\ put_averages' = {}
  /\ \/ /\ ~AssertType(type)
        /\ pc' = "abort"
        /\ UNCHANGED <<low_vol, high_vol, mid_vol, models>>
     \/ /\ AssertType(type)
        /\ get_price(model, type) > Premium
        /\ take_high
        /\ destroy_model
        /\ mid_vol' = 0
        /\ pc' = "while"
     \/ /\ AssertType(type)
        /\ ~(get_price(model, type) > Premium)
        /\ pc' = "cmp_lt"
        /\ UNCHANGED <<low_vol, high_vol, mid_vol, models>>
  /\ UNCHANGED <<inputs, result, locals, iterations, simulations, constructions>>

\* else if (model.get_price(type) < Premium) ... else return mid_vol
CompareBelow ==
  /\ pc = "cmp_lt"
  /\ \/ /\ ~AssertType(type)
        /\ pc' = "abort"
        /\ UNCHANGED <<low_vol, high_vol, mid_vol, models, result>>
     \/ /\ AssertType(type)
        /\ get_price(model, type) < Premium
        /\ take_low
        /\ destroy_model
        /\ mid_vol' = 0
        /\ pc' = "while"
        /\ UNCHANGED result
     \/ /\ AssertType(type)
        /\ ~(get_price(model, type) < Premium)
        /\ result' = mid_vol
        /\ destroy_model
        /\ mid_vol' = 0
        /\ pc' = "return_mid"
        /\ UNCHANGED <<low_vol, high_vol>>
  /\ UNCHANGED <<inputs, locals, call_averages, put_averages,
                 iterations, simulations, constructions>>

\* the final return giving the other bound
return_high == high_vol

\* the operand of return low_vol
return_low == low_vol

\* the loop condition is false: return low_vol
ReturnLow ==
  /\ pc = "while"
  /\ ~loop_condition(low_vol, high_vol, tol)
  /\ result' = return_low
  /\ pc' = "return_low"
  /\ UNCHANGED <<inputs, low_vol, high_vol, mid_vol, models, locals,
                 call_averages, put_averages, iterations, simulations, constructions>>

Next ==
  \/ LoopEnter
  \/ calculatePremiumsStep
  \/ CompareAbove
  \/ CompareBelow
  \/ ReturnLow

Spec == Init /\ [][Next]_vars

(***************************************************************************)
(* Vocabulary of the properties.                                           *)
(***************************************************************************)
Returned == pc \in {"return_low", "return_mid"}

InIteration == pc \in {"ctor", "cmp_gt", "cmp_lt"}

Constructed == pc \in {"cmp_gt", "cmp_lt"}

\* the width high_vol - low_vol in units of tol
Width == (high_vol - low_vol) * Ulp

\* the trial premium the comparisons of the iteration read
TrialPremium == get_price(model, type)

\* no pricer stores a premium below 0: every trial premium exceeds Premium
PremiumBelowAll == Premium < 0

\* no pricer stores a premium above simulations_num
PremiumAboveAll == Premium > simulations_num

\* an iteration ends by narrowing the bracket
IterationEnds == Constructed /\ pc' = "while"

RECURSIVE Halvings(_, _)
\* the least k with w <= t * 2^k, which is ceil(log2(w / t)) for t < w
Halvings(w, t) == IF w <= t THEN 0 ELSE 1 + Halvings(w, 2 * t)

(***************************************************************************)
(* C1.  For every tol > 0 and every sequence of comparison outcomes the    *)
(* loop ends within ceil(log2(5.97 / tol)) iterations.  Stated as a bound  *)
(* on the iteration counter.                                               *)
(***************************************************************************)
C1_IterationBound == iterations <= Halvings(Width0, tol)

\* the bracket lies in [0.03, 6] and mid_vol, while it exists, lies in the bracket
BracketOrdered ==
  /\ LowVol0 <= low_vol /\ low_vol <= high_vol /\ high_vol <= HighVol0
  /\ InIteration => low_vol <= mid_vol /\ mid_vol <= high_vol

(***************************************************************************)
(* C2.  In every iteration 0.03 <= low_vol <= mid_vol <= high_vol <= 6;    *)
(* low_vol never decreases, high_vol never increases, the width never      *)
(* grows, and an iteration that does not return replaces the bracket by    *)
(* [low_vol, mid_vol] or [mid_vol, high_vol], a half of it up to the       *)
(* rounding of mid_vol to one grid step.                                   *)
(***************************************************************************)
C2_BracketInvariant ==
  /\ BracketOrdered
  /\ [][/\ BracketOrdered'
        /\ low_vol' >= low_vol
        /\ high_vol' <= high_vol
        /\ high_vol' - low_vol' <= high_vol - low_vol
        /\ IterationEnds =>
             /\ <<low_vol', high_vol'>> \in {<<low_vol, mid_vol>>, <<mid_vol, high_vol>>}
             /\ 2 * (high_vol' - low_vol') - (high_vol - low_vol) \in {-1, 0, 1}]_vars

C2_Witness == pc = "cmp_gt" /\ low_vol > LowVol0 /\ high_vol < HighVol0

(***************************************************************************)
(* C3.  The function returns mid_vol in the iteration whose trial premium  *)
(* equals Premium, and there at once; otherwise it returns low_vol, at the *)
(* loop test, exactly when the width is <= tol.                            *)
(***************************************************************************)
C3_Returns ==
  [][/\ (pc = "while" /\ pc' # "while") =>
          /\ (Width <= tol) <=> (pc' = "return_low")
          /\ (Width > tol) <=> (pc' = "ctor")
     /\ (pc' = "return_low" /\ pc # "return_low") =>
          pc = "while" /\ Width <= tol /\ result' = low_vol
     /\ (pc' = "return_mid" /\ pc # "return_mid") =>
          pc = "cmp_lt" /\ TrialPremium = Premium /\ result' = mid_vol
     /\ (Constructed /\ AssertType(type) /\ TrialPremium = Premium) =>
          \/ pc = "cmp_gt" /\ pc' = "cmp_lt" /\ low_vol' = low_vol /\ high_vol' = high_vol
          \/ pc = "cmp_lt" /\ pc' = "return_mid"]_vars

C3_Witness == pc = "return_mid" /\ iterations >= 2 /\ result # low_vol

(***************************************************************************)
(* C4.  A call with a type tag other than 'c' and 'p' never returns a      *)
(* volatility, whatever tol and Premium are.                               *)
(***************************************************************************)
C4_BadTypeNeverReturns == ~AssertType(type) => ~Returned

\* the stored premiums against the averages recorded during the simulation
PremiumsAreBest ==
  /\ pc = "cmp_gt" =>
       /\ model.call = SetMax({0} \cup call_averages)
       /\ model.put = SetMax({0} \cup put_averages)
  /\ \A m \in models : m.call >= 0 /\ m.put >= 0

(***************************************************************************)
(* C5.  The premiums a constructed BSMmodel stores are the maximum of 0    *)
(* and the per-step average payoffs of its simulation, so they are >= 0;   *)
(* the running best values never decrease from one step to the next.       *)
(***************************************************************************)
C5_StoredPremiums ==
  /\ PremiumsAreBest
  /\ [][/\ PremiumsAreBest'
        /\ (pc = "ctor" /\ pc' = "ctor") =>
             /\ best_call_profit' >= best_call_profit
             /\ best_put_profit' >= best_put_profit
        /\ (pc = "ctor" /\ pc' = "cmp_gt") =>
             \A m \in models' : /\ m.call >= best_call_profit
                                /\ m.put >= best_put_profit]_vars

C5_Witness ==
  /\ pc = "cmp_gt"
  /\ Cardinality(call_averages) >= 2
  /\ model.call > 0

(***************************************************************************)
(* C6.  profit(x, 'c') = max(x - Strike, 0), profit(x, 'p') =              *)
(* max(Strike - x, 0): both are >= 0, at most one is non-zero, both are 0  *)
(* at x = Strike.  Read off the payoff vectors after a time step.          *)
(***************************************************************************)
C6_Payoffs ==
  (pc = "ctor" /\ time > 1) =>
    \A i \in Paths :
      /\ call_profits[i] = (IF spots[i] > Strike THEN spots[i] - Strike ELSE 0)
      /\ put_profits[i] = (IF Strike > spots[i] THEN Strike - spots[i] ELSE 0)
      /\ call_profits[i] >= 0 /\ put_profits[i] >= 0
      /\ call_profits[i] = 0 \/ put_profits[i] = 0
      /\ spots[i] = Strike => call_profits[i] = 0 /\ put_profits[i] = 0

C6_Witness ==
  /\ pc = "ctor" /\ time > 1
  /\ \E i \in Paths : call_profits[i] > 0
  /\ \E i \in Paths : spots[i] = Strike

C8_Frame ==
  [][/\ inputs' = inputs
     /\ (pc = "cmp_gt" /\ AssertType(type) /\ TrialPremium > Premium) =>
          high_vol' = mid_vol /\ low_vol' = low_vol
     /\ (pc = "cmp_lt" /\ AssertType(type) /\ TrialPremium < Premium) =>
          low_vol' = mid_vol /\ high_vol' = high_vol
     /\ low_vol' = low_vol \/ high_vol' = high_vol
     /\ ~(Constructed /\ AssertType(type) /\ TrialPremium # Premium) =>
          low_vol' = low_vol /\ high_vol' = high_vol]_vars

C8_Witness ==
  /\ pc = "while"
  /\ low_vol > LowVol0
  /\ high_vol < HighVol0

\* the BSMmodel objects alive at each position, and the counters
OnePricer ==
  /\ Cardinality(models) <= 1
  /\ Constructed => models # {} /\ model.Sigma = mid_vol
  /\ pc \in {"while", "ctor", "return_low", "return_mid"} => models = {}
  /\ simulations = iterations
  /\ constructions = IF pc = "ctor" THEN iterations - 1 ELSE iterations
  /\ (pc = "cmp_lt" /\ AssertType(type)) => ~(TrialPremium > Premium)

(***************************************************************************)
(* C9.  One BSMmodel is constructed per iteration, at mid_vol, and it is   *)
(* destroyed before the next one is constructed; its simulation runs once, *)
(* in the constructor, and its premiums never change afterwards, so the    *)
(* second comparison reads what the first one read and was not above       *)
(* Premium.                                                                *)
(***************************************************************************)
C9_OnePricerPerIteration ==
  /\ OnePricer
  /\ [][/\ OnePricer'
        /\ (models # {} /\ models' # {}) => models' = models
        /\ (pc = "cmp_gt" /\ pc' = "cmp_lt") =>
             get_price(CHOOSE m \in models' : TRUE, type') = TrialPremium]_vars

C9_Witness ==
  /\ pc = "cmp_lt"
  /\ iterations >= 2
  /\ Cardinality(models) = 1

====
